---- MODULE Spec2Model ----
(***************************************************************************)
(* Lyric-to-transcript alignment (align_whisper.py): normalize_text,       *)
(* word_similarity and fallback_align.                                     *)
(*                                                                         *)
(* Texts are sequences of one-character strings.  Times are integers in     *)
(* ticks of 1/TicksPerSecond second, so that the division of a segment's    *)
(* duration by its word count is exact; similarity scores are integers in   *)
(* units of 1/SimUnit, so that the Jaccard ratio is exact.  An absent time  *)
(* (Python None) is the empty sequence, a present time t is <<t>>.          *)
(* Indexes into the word timeline are 0-based, as in the source.           *)
(***************************************************************************)
EXTENDS Integers, Sequences, FiniteSets, TLC

VARIABLES transcript_segments, lyrics_lines, words_timeline, results,
          current_pos, seg_i, line_i, chosen, steps, pc, w1, w2, sim

vars == <<transcript_segments, lyrics_lines, words_timeline, results,
          current_pos, seg_i, line_i, chosen, steps, pc, w1, w2, sim>>

alignVars == <<transcript_segments, lyrics_lines, words_timeline, results,
               current_pos, seg_i, line_i, chosen, steps, pc>>

simVars == <<w1, w2, sim>>

(***************************************************************************)
(* Bounds of the model.                                                    *)
(***************************************************************************)
MaxSegs == 2
MaxLines == 3
MaxTime == 1
MaxWordLen == 3

(***************************************************************************)
(* Constants of the program.                                               *)
(***************************************************************************)
AnchorLines == 3
AnchorRange == 50
AnchorWindow == 15
SearchRange == 50
GapSeconds == 2

(***************************************************************************)
(* Characters.                                                             *)
(***************************************************************************)
LowerLetters == {"a", "b", "c"}
UpperLetters == {"A", "B"}
Whitespace == {" "}
Punctuation == {"!"}

None == <<>>
Some(t) == <<t>>

Min(a, b) == IF a < b THEN a ELSE b

RECURSIVE Gcd(_, _)
Gcd(a, b) == IF b = 0 THEN a ELSE Gcd(b, a % b)

Lcm(a, b) == (a * b) \div Gcd(a, b)

RECURSIVE LcmUpTo(_)
LcmUpTo(n) == IF n <= 1 THEN 1 ELSE Lcm(n, LcmUpTo(n - 1))

RECURSIVE SeqsUpTo(_, _)
SeqsUpTo(S, n) ==
    IF n = 0 THEN {<<>>}
    ELSE LET shorter == SeqsUpTo(S, n - 1)
         IN  shorter \cup {Append(s, x) : s \in shorter, x \in S}

(***************************************************************************)
(* str.lower(), str.strip(), str.split(), ' '.join() and `in` on strings.  *)
(***************************************************************************)
LowerChar(c) == CASE c = "A" -> "a" [] c = "B" -> "b" [] OTHER -> c

lower(text) == [i \in 1..Len(text) |-> LowerChar(text[i])]

IsSpace(c) == c \in Whitespace

IsWordChar(c) == c \in LowerLetters \cup UpperLetters

lstrip(text) ==
    LET n == Cardinality({i \in 1..Len(text) :
                             \A k \in 1..i : IsSpace(text[k])})
    IN  SubSeq(text, n + 1, Len(text))

rstrip(text) ==
    LET n == Cardinality({i \in 1..Len(text) :
                             \A k \in i..Len(text) : IsSpace(text[k])})
    IN  SubSeq(text, 1, Len(text) - n)

strip(text) == rstrip(lstrip(text))

Abs(n) == IF n < 0 THEN -n ELSE n

\* str.split(): the maximal runs of non-whitespace characters, in order
\* (the text is cut at a whitespace character near its middle, which keeps
\* the recursion shallow).
RECURSIVE split(_)
split(text) ==
    LET spaces == {i \in 1..Len(text) : IsSpace(text[i])}
        mid == (Len(text) + 1) \div 2
        cut == CHOOSE i \in spaces :
                   \A j \in spaces : Abs(i - mid) <= Abs(j - mid)
    IN  IF text = <<>> THEN <<>>
        ELSE IF spaces = {} THEN <<text>>
        ELSE split(SubSeq(text, 1, cut - 1))
                 \o split(SubSeq(text, cut + 1, Len(text)))

RECURSIVE join(_)
join(words) ==
    IF words = <<>> THEN <<>>
    ELSE IF Len(words) = 1 THEN words[1]
    ELSE words[1] \o <<" ">> \o join(Tail(words))

IsSubstring(w, s) ==
    \E i \in 0..(Len(s) - Len(w)) : SubSeq(s, i + 1, i + Len(w)) = w

(***************************************************************************)
(* normalize_text: lower-case, remove every character that is neither a    *)
(* word character nor whitespace, collapse each run of whitespace to one    *)
(* space, strip.                                                           *)
(***************************************************************************)
RemovePunctuation(text) ==
    SelectSeq(text, LAMBDA c : IsWordChar(c) \/ IsSpace(c))

CollapseWhitespace(text) ==
    LET marked == [i \in 1..Len(text) |->
                      IF ~IsSpace(text[i]) THEN text[i]
                      ELSE IF i > 1 /\ IsSpace(text[i - 1]) THEN ""
                      ELSE " "]
    IN  SelectSeq(marked, LAMBDA c : c # "")

normalize_text(text) ==
    strip(CollapseWhitespace(RemovePunctuation(lower(text))))

(***************************************************************************)
(* word_similarity, in units of 1/SimUnit (1.0 is SimUnit).                *)
(***************************************************************************)
SimUnit == LcmUpTo(Cardinality(LowerLetters \cup Whitespace \cup Punctuation))

CharSet(w) == {w[i] : i \in 1..Len(w)}

word_similarity_NoShortcut(a, b) ==
    LET chars1 == CharSet(lower(a))
        chars2 == CharSet(lower(b))
    IN  IF chars1 = {} \/ chars2 = {} THEN 0
        ELSE (Cardinality(chars1 \cap chars2) * SimUnit)
                 \div Cardinality(chars1 \cup chars2)

word_similarity(a, b) ==
    LET x == lower(a)
        y == lower(b)
        chars1 == CharSet(x)
        chars2 == CharSet(y)
    IN  IF x = y THEN SimUnit
        ELSE IF chars1 = {} \/ chars2 = {} THEN 0
        ELSE (Cardinality(chars1 \cap chars2) * SimUnit)
                 \div Cardinality(chars1 \cup chars2)

(***************************************************************************)
(* Inputs of fallback_align.  Segment texts: one that normalizes to no     *)
(* word, one of two words ("a", "b"), and two long ones (an intro of "c"  *)
(* words followed by "a") that make the timeline longer than the anchor    *)
(* window and longer than the anchor and search ranges.                    *)
(***************************************************************************)
IntroText(n) ==
    [i \in 1..((2 * n) - 1) |->
        IF i % 2 = 0 THEN " " ELSE IF i = (2 * n) - 1 THEN "a" ELSE "c"]

ShortSegTexts == {<<"!">>, <<"a", "!", " ", "B">>}

LongSegTexts ==
    {IntroText(AnchorWindow + 1), IntroText(AnchorRange + AnchorWindow)}

RECURSIVE LcmOfCounts(_)
LcmOfCounts(S) ==
    IF S = {} THEN 1
    ELSE LET t == CHOOSE x \in S : TRUE
             k == Len(split(normalize_text(t)))
         IN  Lcm(IF k = 0 THEN 1 ELSE k, LcmOfCounts(S \ {t}))

TicksPerSecond == LcmOfCounts(ShortSegTexts \cup LongSegTexts)

SegTimes == {<<0, MaxTime>>, <<MaxTime, MaxTime>>}

SegmentsOver(texts, times) ==
    {[text |-> t, start |-> p[1] * TicksPerSecond, end |-> p[2] * TicksPerSecond] :
        t \in texts, p \in times}

SegmentLists ==
    SeqsUpTo(SegmentsOver(ShortSegTexts, SegTimes), MaxSegs)
        \cup {<<s>> : s \in SegmentsOver(LongSegTexts, {<<0, MaxTime>>})}

LineTexts == {<<>>, <<"!">>, <<"a">>, <<" ", "B", "a", " ", "a", "!">>}

\* Lists of AnchorLines non-blank lines that follow one blank line.
RECURSIVE SeqsOfLen(_, _)
SeqsOfLen(S, n) ==
    IF n = 0 THEN {<<>>}
    ELSE {Append(s, x) : s \in SeqsOfLen(S, n - 1), x \in S}

LateLineLists ==
    {<<<<>>>> \o ls : ls \in SeqsOfLen({<<"!">>, <<"a">>}, AnchorLines)}

LineLists == SeqsUpTo(LineTexts, MaxLines) \cup LateLineLists

Ordered(segs) ==
    /\ \A i \in 1..Len(segs) : segs[i].start <= segs[i].end
    /\ \A i \in 1..(Len(segs) - 1) : segs[i].end <= segs[i + 1].start

(***************************************************************************)
(* fallback_align: the word timeline.                                      *)
(***************************************************************************)
At(tl, i) == tl[i + 1]

InRange(tl, i) == i \in 0..(Len(tl) - 1)

SkipSegment_Never(seg_words) == FALSE

SkipSegment(seg_words) == seg_words = <<>>

SegmentTokens_EndAtSegmentStart(seg, seg_words) ==
    LET seg_duration == seg.end - seg.start
        time_per_word == seg_duration \div Len(seg_words)
    IN  [i \in 1..Len(seg_words) |->
            [word  |-> seg_words[i],
             start |-> seg.start + ((i - 1) * time_per_word),
             end   |-> seg.start]]

SegmentTokens(seg, seg_words) ==
    LET seg_duration == seg.end - seg.start
        time_per_word == seg_duration \div Len(seg_words)
    IN  [i \in 1..Len(seg_words) |->
            [word  |-> seg_words[i],
             start |-> seg.start + ((i - 1) * time_per_word),
             end   |-> (seg.start + ((i - 1) * time_per_word)) + time_per_word]]

Untimed(l) == [line |-> l, start |-> None, end |-> None]

(***************************************************************************)
(* fallback_align: the anchor search.                                      *)
(***************************************************************************)
first_few_lyrics(lines) ==
    LET head == SubSeq(lines, 1, Min(AnchorLines, Len(lines)))
        kept == SelectSeq(head, LAMBDA l : strip(l) # <<>>)
    IN  join([k \in 1..Len(kept) |-> normalize_text(kept[k])])

test_window(tl, start_idx) ==
    join([i \in 1..Min(AnchorWindow, Len(tl) - start_idx) |->
             At(tl, start_idx + (i - 1)).word])

StartScore(tl, ref, start_idx) ==
    LET window == test_window(tl, start_idx)
    IN  Cardinality({k \in 1..Len(ref) : IsSubstring(ref[k], window)})

RECURSIVE AnchorLoop(_, _, _, _, _)
AnchorLoop(tl, ref, start_idx, best_start_score, best_start_pos) ==
    IF start_idx >= Min(AnchorRange, Len(tl)) THEN best_start_pos
    ELSE LET score == StartScore(tl, ref, start_idx)
         IN  IF score > best_start_score
             THEN AnchorLoop(tl, ref, start_idx + 1, score, start_idx)
             ELSE AnchorLoop(tl, ref, start_idx + 1, best_start_score, best_start_pos)

BestStartPos(tl, lines) == AnchorLoop(tl, split(first_few_lyrics(lines)), 0, 0, 0)

AnchorIndexError(tl) ==
    \E start_idx \in 0..(Min(AnchorRange, Len(tl)) - 1) :
        \E i \in 0..(Min(AnchorWindow, Len(tl) - start_idx) - 1) :
            ~InRange(tl, start_idx + i)

(***************************************************************************)
(* fallback_align: the search for one line.                                *)
(***************************************************************************)
RECURSIVE MatchScore(_, _, _, _)
MatchScore(tl, lyric_words, start_idx, i) ==
    IF i >= Len(lyric_words) THEN 0
    ELSE (IF start_idx + i < Len(tl)
          THEN word_similarity(lyric_words[i + 1], At(tl, start_idx + i).word)
          ELSE 0)
         + MatchScore(tl, lyric_words, start_idx, i + 1)

RECURSIVE SearchLoop_LastTie(_, _, _, _, _, _)
SearchLoop_LastTie(tl, lyric_words, pos, start_idx, best_score, best_start_idx) ==
    IF start_idx >= Min(pos + SearchRange, Len(tl)) THEN best_start_idx
    ELSE IF start_idx + Len(lyric_words) > Len(tl) THEN best_start_idx
    ELSE LET score == MatchScore(tl, lyric_words, start_idx, 0)
         IN  IF score >= best_score /\ score > 0
             THEN SearchLoop_LastTie(tl, lyric_words, pos, start_idx + 1,
                                     score, start_idx)
             ELSE SearchLoop_LastTie(tl, lyric_words, pos, start_idx + 1,
                                     best_score, best_start_idx)

RECURSIVE SearchLoop(_, _, _, _, _, _)
SearchLoop(tl, lyric_words, pos, start_idx, best_score, best_start_idx) ==
    IF start_idx >= Min(pos + SearchRange, Len(tl)) THEN best_start_idx
    ELSE IF start_idx + Len(lyric_words) > Len(tl) THEN best_start_idx
    ELSE LET score == MatchScore(tl, lyric_words, start_idx, 0)
         IN  IF score > best_score
             THEN SearchLoop(tl, lyric_words, pos, start_idx + 1, score, start_idx)
             ELSE SearchLoop(tl, lyric_words, pos, start_idx + 1,
                             best_score, best_start_idx)

BestStartIdx_FromZero(tl, lyric_words, pos) ==
    SearchLoop(tl, lyric_words, 0, 0, 0, 0)

BestStartIdx(tl, lyric_words, pos) == SearchLoop(tl, lyric_words, pos, pos, 0, pos)

EndIdx(tl, lyric_words, best_start_idx) ==
    Min((best_start_idx + Len(lyric_words)) - 1, Len(tl) - 1)

(***************************************************************************)
(* fallback_align: the timing of a line once the timeline is used up.      *)
(***************************************************************************)
FallbackResult_FromPrevStart(res, l) ==
    IF res # <<>> /\ res[Len(res)].start # None
    THEN LET last_start == res[Len(res)].start[1]
         IN  [line |-> l, start |-> Some(last_start),
              end |-> Some(last_start + (GapSeconds * TicksPerSecond))]
    ELSE [line |-> l, start |-> Some(0),
          end |-> Some(GapSeconds * TicksPerSecond)]

FallbackResult(res, l) ==
    IF res # <<>> /\ res[Len(res)].end # None
    THEN LET last_end == res[Len(res)].end[1]
         IN  [line |-> l, start |-> Some(last_end),
              end |-> Some(last_end + (GapSeconds * TicksPerSecond))]
    ELSE LET last_time == IF res # <<>> /\ res[Len(res)].start # None
                          THEN res[Len(res)].start[1]
                          ELSE 0
         IN  [line |-> l, start |-> Some(last_time),
              end |-> Some(last_time + (GapSeconds * TicksPerSecond))]

(***************************************************************************)
(* fallback_align: the body of the loop over the lyric lines.  The outcome *)
(* of one line is the result it appends, the pointer it leaves, and (kept   *)
(* for the record) its kind, the pointer it started from, the offset the    *)
(* search chose and the index of the last timeline word it covers.         *)
(***************************************************************************)
LineText_Normalized(line) == normalize_text(line)

LineText(line) == strip(line)

Outcome(kind, result, pos, next_pos, offset, end_idx) ==
    [kind |-> kind, result |-> result, pos |-> pos, next_pos |-> next_pos,
     offset |-> offset, end_idx |-> end_idx]

BlankOutcome_Consumes(pos) ==
    Outcome("blank", Untimed(<<>>), pos, pos + 1, -1, -1)

BlankOutcome(pos) ==
    Outcome("blank", Untimed(<<>>), pos, pos, -1, -1)

NoWordsOutcome(pos, l) ==
    Outcome("nowords", Untimed(l), pos, pos, -1, -1)

MatchedOutcome(tl, pos, l, lyric_words, best_start_idx) ==
    LET end_idx == EndIdx(tl, lyric_words, best_start_idx)
    IN  IF ~InRange(tl, best_start_idx) \/ ~InRange(tl, end_idx)
        THEN Outcome("IndexError", Untimed(l), pos, pos, best_start_idx, end_idx)
        ELSE Outcome("matched",
                     [line  |-> l,
                      start |-> Some(At(tl, best_start_idx).start),
                      end   |-> Some(At(tl, end_idx).end)],
                     pos, end_idx + 1, best_start_idx, end_idx)

FallbackOutcome(res, pos, l, best_start_idx) ==
    Outcome("fallback", FallbackResult(res, l), pos, pos, best_start_idx, -1)

ProcessLine(tl, res, pos, line) ==
    LET l == LineText(line)
        lyric_words == split(normalize_text(l))
        best_start_idx == BestStartIdx(tl, lyric_words, pos)
    IN  IF l = <<>> THEN BlankOutcome(pos)
        ELSE IF lyric_words = <<>> THEN NoWordsOutcome(pos, l)
        ELSE IF best_start_idx < Len(tl)
        THEN MatchedOutcome(tl, pos, l, lyric_words, best_start_idx)
        ELSE FallbackOutcome(res, pos, l, best_start_idx)

(***************************************************************************)
(* fallback_align as a function of its two arguments.                      *)
(***************************************************************************)
RECURSIVE BuildTimeline(_, _)
BuildTimeline(segs, i) ==
    IF i > Len(segs) THEN <<>>
    ELSE LET seg_words == split(normalize_text(segs[i].text))
         IN  (IF SkipSegment(seg_words) THEN <<>>
              ELSE SegmentTokens(segs[i], seg_words))
             \o BuildTimeline(segs, i + 1)

RECURSIVE AlignLines(_, _, _, _, _)
AlignLines(tl, lines, i, pos, res) ==
    IF i > Len(lines) THEN res
    ELSE LET o == ProcessLine(tl, res, pos, lines[i])
         IN  AlignLines(tl, lines, i + 1, o.next_pos, Append(res, o.result))

fallback_align(segs, lines) ==
    LET tl == BuildTimeline(segs, 1)
    IN  IF tl = <<>> THEN [k \in 1..Len(lines) |-> Untimed(lines[k])]
        ELSE AlignLines(tl, lines, 1, BestStartPos(tl, lines), <<>>)

(***************************************************************************)
(* fallback_align as a state machine: one step per segment, one for the    *)
(* anchor search (or the early return), one per lyric line.                *)
(***************************************************************************)
ErrorStates == {"ZeroDivisionError", "IndexError"}

Init ==
    /\ transcript_segments \in SegmentLists
    /\ lyrics_lines \in LineLists
    /\ words_timeline = <<>>
    /\ results = <<>>
    /\ current_pos = 0
    /\ seg_i = 1
    /\ line_i = 1
    /\ chosen = <<>>
    /\ steps = 0
    /\ pc = "build"
    /\ w1 = <<>>
    /\ w2 = <<>>
    /\ sim = None

BuildSegment ==
    /\ pc = "build"
    /\ seg_i <= Len(transcript_segments)
    /\ LET seg == transcript_segments[seg_i]
           seg_words == split(normalize_text(seg.text))
       IN  IF SkipSegment(seg_words)
           THEN /\ seg_i' = seg_i + 1
                /\ UNCHANGED <<words_timeline, pc>>
           ELSE IF Len(seg_words) = 0
           THEN /\ pc' = "ZeroDivisionError"
                /\ UNCHANGED <<words_timeline, seg_i>>
           ELSE /\ words_timeline' = words_timeline \o SegmentTokens(seg, seg_words)
                /\ seg_i' = seg_i + 1
                /\ UNCHANGED pc
    /\ UNCHANGED <<transcript_segments, lyrics_lines, results, current_pos,
                   line_i, chosen>>
    /\ steps' = steps + 1
    /\ UNCHANGED simVars

EmptyTimelineReturn ==
    /\ pc = "build"
    /\ seg_i > Len(transcript_segments)
    /\ words_timeline = <<>>
    /\ results' = [k \in 1..Len(lyrics_lines) |-> Untimed(lyrics_lines[k])]
    /\ pc' = "done"
    /\ UNCHANGED <<transcript_segments, lyrics_lines, words_timeline, current_pos,
                   seg_i, line_i, chosen>>
    /\ steps' = steps + 1
    /\ UNCHANGED simVars

LocateAnchor ==
    /\ pc = "build"
    /\ seg_i > Len(transcript_segments)
    /\ words_timeline # <<>>
    /\ IF AnchorIndexError(words_timeline)
       THEN /\ pc' = "IndexError"
            /\ UNCHANGED current_pos
       ELSE /\ current_pos' = BestStartPos(words_timeline, lyrics_lines)
            /\ pc' = "lines"
    /\ UNCHANGED <<transcript_segments, lyrics_lines, words_timeline, results,
                   seg_i, line_i, chosen>>
    /\ steps' = steps + 1
    /\ UNCHANGED simVars

\* The outcome of the line the loop is at.
ThisLine ==
    ProcessLine(words_timeline, results, current_pos, lyrics_lines[line_i])

Emit(o) ==
    /\ IF o.kind \in ErrorStates
       THEN /\ pc' = o.kind
            /\ UNCHANGED <<results, current_pos, line_i, chosen>>
       ELSE /\ results' = Append(results, o.result)
            /\ current_pos' = o.next_pos
            /\ chosen' = Append(chosen, o)
            /\ line_i' = line_i + 1
            /\ UNCHANGED pc
    /\ UNCHANGED <<transcript_segments, lyrics_lines, words_timeline, seg_i>>
    /\ steps' = steps + 1
    /\ UNCHANGED simVars

BlankLine_NoResult ==
    /\ pc = "lines"
    /\ line_i <= Len(lyrics_lines)
    /\ ThisLine.kind = "blank"
    /\ line_i' = line_i + 1
    /\ UNCHANGED <<transcript_segments, lyrics_lines, words_timeline, results,
                   current_pos, seg_i, chosen, pc>>
    /\ steps' = steps + 1
    /\ UNCHANGED simVars

BlankLine ==
    /\ pc = "lines"
    /\ line_i <= Len(lyrics_lines)
    /\ ThisLine.kind = "blank"
    /\ Emit(ThisLine)

ZeroWordLine ==
    /\ pc = "lines"
    /\ line_i <= Len(lyrics_lines)
    /\ ThisLine.kind = "nowords"
    /\ Emit(ThisLine)

MatchLine ==
    /\ pc = "lines"
    /\ line_i <= Len(lyrics_lines)
    /\ ThisLine.kind \in {"matched", "IndexError"}
    /\ Emit(ThisLine)

FallbackLine ==
    /\ pc = "lines"
    /\ line_i <= Len(lyrics_lines)
    /\ ThisLine.kind = "fallback"
    /\ Emit(ThisLine)

Return ==
    /\ pc = "lines"
    /\ line_i > Len(lyrics_lines)
    /\ pc' = "done"
    /\ UNCHANGED <<transcript_segments, lyrics_lines, words_timeline, results,
                   current_pos, seg_i, line_i, chosen>>
    /\ steps' = steps + 1
    /\ UNCHANGED simVars

Next ==
    \/ BuildSegment
    \/ EmptyTimelineReturn
    \/ LocateAnchor
    \/ BlankLine
    \/ ZeroWordLine
    \/ MatchLine
    \/ FallbackLine
    \/ Return

Spec == Init /\ [][Next]_vars

\* The state machine computes the function.
StepsComputeFunction ==
    pc = "done" => results = fallback_align(transcript_segments, lyrics_lines)

(***************************************************************************)
(* Properties of fallback_align.                                           *)
(***************************************************************************)
Timed(r) == r.start # None /\ r.end # None

KindsSeen == {chosen[k].kind : k \in 1..Len(chosen)}

\* The pointer the loop held after line k.
PosAfter(k) == IF k < Len(chosen) THEN chosen[k + 1].pos ELSE current_pos

NormalizedWords(line) == split(normalize_text(strip(line)))

\* C1: the returned list has exactly one result per lyric line, blank lines
\* included, in the order of the lines (also on the early return for an empty
\* timeline); while the loop runs, every line processed so far has appended
\* exactly one result.
OneResultPerLine ==
    /\ pc = "lines" =>
          /\ Len(results) = line_i - 1
          /\ \A k \in 1..Len(results) : results[k].line = strip(lyrics_lines[k])
    /\ pc = "done" =>
          /\ Len(results) = Len(lyrics_lines)
          /\ \A k \in 1..Len(results) :
                results[k].line = IF words_timeline = <<>>
                                  THEN lyrics_lines[k]
                                  ELSE strip(lyrics_lines[k])

\* A list of three lines, one blank, one matched and one timed by the
\* fallback, was aligned.
OneResultPerLineWitness ==
    /\ pc = "done"
    /\ Len(lyrics_lines) >= 3
    /\ {"blank", "matched", "fallback"} \subseteq KindsSeen

\* C2: for chronologically ordered segments with start <= end, every result
\* has start null exactly when end is null, and end >= start when timed.
WellFormedTiming ==
    Ordered(transcript_segments) =>
        \A k \in 1..Len(results) :
            /\ results[k].start = None <=> results[k].end = None
            /\ Timed(results[k]) => results[k].end[1] >= results[k].start[1]

\* Ordered segments; one line was matched on words of two segments, one was
\* cut at the end of the timeline, one was timed by the fallback.
WellFormedTimingWitness ==
    /\ pc = "done"
    /\ Ordered(transcript_segments)
    /\ Len(transcript_segments) = 2
    /\ Len(words_timeline) = 4
    /\ \E k \in 1..Len(chosen) :
          /\ chosen[k].kind = "matched"
          /\ chosen[k].offset <= 1
          /\ chosen[k].end_idx >= 2
          /\ results[k].start[1] < results[k].end[1]
    /\ \E k \in 1..Len(chosen) :
          /\ chosen[k].kind = "matched"
          /\ chosen[k].offset + Len(NormalizedWords(lyrics_lines[k]))
                 > Len(words_timeline)
    /\ "fallback" \in KindsSeen

\* C3: the pointer never decreases, and of two lines matched against the
\* timeline the later one's offset is at least the earlier one's end index
\* plus one, whatever lies between them.
MatchedInOrder ==
    \A i, j \in 1..Len(chosen) :
        (i < j /\ chosen[i].kind = "matched" /\ chosen[j].kind = "matched") =>
            /\ chosen[j].offset >= chosen[i].end_idx + 1
            /\ chosen[j].offset >= chosen[i].offset

MonotonicPointer ==
    /\ [][current_pos' >= current_pos]_vars
    /\ []MatchedInOrder

\* Two matched lines with a blank or zero-word line between them, after an
\* anchor or an offset beyond the pointer.
MonotonicPointerWitness ==
    \E i \in 1..Len(chosen) :
        /\ i + 2 <= Len(chosen)
        /\ chosen[i].kind = "matched"
        /\ chosen[i + 1].kind \in {"blank", "nowords"}
        /\ chosen[i + 2].kind = "matched"
        /\ chosen[i + 2].offset > chosen[i + 2].pos

Gap == GapSeconds * TicksPerSecond

Exhausted(k) == chosen[k].pos >= Len(words_timeline)

NonBlank(k) == strip(lyrics_lines[k]) # <<>>

HasWords(k) == NormalizedWords(lyrics_lines[k]) # <<>>

\* A line with words met with the timeline used up is timed from the result
\* just before it: from that result's end when it has one, from 0.0 when it
\* is untimed or absent; the pointer stays.
TimedFromPrevious ==
    \A k \in 1..Len(chosen) :
        (HasWords(k) /\ Exhausted(k)) =>
            /\ chosen[k].kind = "fallback"
            /\ IF k > 1 /\ results[k - 1].end # None
               THEN /\ results[k].start = results[k - 1].end
                    /\ results[k].end = Some(results[k - 1].end[1] + Gap)
               ELSE /\ results[k].start = Some(0)
                    /\ results[k].end = Some(Gap)
            /\ PosAfter(k) = chosen[k].pos

\* Line k + 1 starts where line k ends, 2.0 after line k's start.
ContinuesFrom(k) ==
    /\ Timed(results[k])
    /\ Timed(results[k + 1])
    /\ results[k + 1].start = results[k].end
    /\ results[k + 1].end = Some(results[k].end[1] + Gap)
    /\ chosen[k].kind = "fallback" =>
          results[k + 1].start[1] = results[k].start[1] + Gap

\* C5 (as stated): a line with words met after exhaustion is timed from the
\* immediately preceding result, and in a run of consecutive non-blank lines
\* after exhaustion each line starts at the previous line's end, 2.0 apart.
ExhaustionFallbackAsStated ==
    /\ TimedFromPrevious
    /\ \A k \in 1..(Len(chosen) - 1) :
          (NonBlank(k) /\ NonBlank(k + 1) /\ Exhausted(k) /\ Exhausted(k + 1)) =>
              ContinuesFrom(k)

\* C5 (amended): a line with words met after exhaustion is timed from the
\* immediately preceding result, and in a run of consecutive lines after
\* exhaustion that each have at least one normalized word, each line starts
\* at the previous line's end, 2.0 apart.
ExhaustionFallback ==
    /\ TimedFromPrevious
    /\ \A k \in 1..(Len(chosen) - 1) :
          (HasWords(k) /\ HasWords(k + 1) /\ Exhausted(k) /\ Exhausted(k + 1)) =>
              ContinuesFrom(k)

\* Two consecutive lines were timed by the fallback, the first of them from
\* the end of a matched line.
ExhaustionFallbackWitness ==
    /\ Len(chosen) >= 3
    /\ chosen[1].kind = "matched"
    /\ chosen[2].kind = "fallback"
    /\ chosen[3].kind = "fallback"
    /\ results[2].start = results[1].end
    /\ results[3].start[1] = results[2].start[1] + Gap

TextKept == {"matched", "nowords", "fallback"}

\* C6 (as stated): the line field of the result of a non-blank line is the
\* lyric line as given, leading and trailing whitespace included.
LineTextLiteralAsStated ==
    \A k \in 1..Len(chosen) :
        chosen[k].kind \in TextKept => results[k].line = lyrics_lines[k]

\* C6 (amended): the line field of the result of a non-blank line is the
\* lyric line with its leading and trailing whitespace stripped; case,
\* punctuation and inner whitespace are as given (normalization touches only
\* the copy that is compared).
LineTextStripped ==
    \A k \in 1..Len(chosen) :
        chosen[k].kind \in TextKept => results[k].line = strip(lyrics_lines[k])

\* Lines whose stripped text differs from both the given and the normalized
\* text were matched and timed by the fallback, and a zero-word line passed.
LineTextStrippedWitness ==
    /\ \A kind \in {"matched", "fallback"} :
          \E k \in 1..Len(chosen) :
              /\ chosen[k].kind = kind
              /\ results[k].line # lyrics_lines[k]
              /\ results[k].line # normalize_text(lyrics_lines[k])
    /\ "nowords" \in KindsSeen

Unmatched == {"blank", "nowords"}

RemoveAt(seq, k) == SubSeq(seq, 1, k - 1) \o SubSeq(seq, k + 1, Len(seq))

\* A blank or zero-word line gets null timing and leaves the pointer alone.
UnmatchedLeavesPointer ==
    \A k \in 1..Len(chosen) :
        chosen[k].kind \in Unmatched =>
            /\ results[k].start = None
            /\ results[k].end = None
            /\ PosAfter(k) = chosen[k].pos

\* C7 (as stated): a blank or zero-word line gets null timing, leaves the
\* pointer alone, and every later line gets the result it would get with
\* that line absent from the input.
UnmatchedLineAsIfAbsentAsStated ==
    /\ UnmatchedLeavesPointer
    /\ (pc = "done" /\ words_timeline # <<>>) =>
          \A k \in 1..Len(chosen) :
              chosen[k].kind \in Unmatched =>
                  LET without == fallback_align(transcript_segments,
                                                RemoveAt(lyrics_lines, k))
                  IN  \A j \in (k + 1)..Len(results) : results[j] = without[j - 1]

\* C7 (amended): a blank or zero-word line gets null timing and leaves the
\* pointer alone, so the next line with words is searched from the pointer
\* the line found (its offset is at least that pointer, and the pointer it
\* leaves is beyond it); a next line timed by the fallback is timed 0.0 to
\* 2.0 from this null result.
UnmatchedLineFrame ==
    /\ UnmatchedLeavesPointer
    /\ \A k \in 1..(Len(chosen) - 1) :
          chosen[k].kind \in Unmatched =>
              /\ chosen[k + 1].pos = chosen[k].pos
              /\ chosen[k + 1].kind = "matched" =>
                    /\ chosen[k].pos < Len(words_timeline)
                    /\ chosen[k + 1].offset >= chosen[k].pos
                    /\ PosAfter(k + 1) > chosen[k].pos
              /\ chosen[k + 1].kind = "fallback" =>
                    /\ chosen[k].pos >= Len(words_timeline)
                    /\ results[k + 1].start = Some(0)
                    /\ results[k + 1].end = Some(Gap)

\* A blank or zero-word line between two matched lines was processed, and
\* the second match moved the pointer on.
UnmatchedLineFrameWitness ==
    /\ Len(chosen) >= 3
    /\ chosen[1].kind = "matched"
    /\ chosen[2].kind \in Unmatched
    /\ chosen[3].kind = "matched"
    /\ current_pos > chosen[2].pos

\* What is left to do: the segments and lines not yet processed, and the
\* steps between the loops.
Remaining ==
    ((Len(transcript_segments) + 1) - seg_i)
        + ((Len(lyrics_lines) + 1) - line_i)
        + (CASE pc = "build" -> 2 [] pc = "lines" -> 1 [] OTHER -> 0)

\* Some step of the function can be taken: the guard of one of its steps holds.
CanStep ==
    \/ pc = "build" /\ seg_i <= Len(transcript_segments)
    \/ pc = "build" /\ seg_i > Len(transcript_segments)
    \/ /\ pc = "lines"
       /\ line_i <= Len(lyrics_lines)
       /\ ThisLine.kind \in {"blank", "nowords", "matched", "fallback"}
    \/ pc = "lines" /\ line_i > Len(lyrics_lines)

\* C8: for well-formed segments and any lyric lines fallback_align returns a
\* result and raises nothing: no division by a zero word count, no index
\* outside the word timeline; until it has returned it can always take a
\* step, and the steps taken and the work left never exceed one step per
\* segment and per line plus two.
NeverRaises ==
    /\ pc \notin ErrorStates
    /\ pc = "done" \/ CanStep
    /\ Remaining >= 0
    /\ steps + Remaining <= (Len(transcript_segments) + Len(lyrics_lines)) + 2

\* A run over a segment without words and a zero-duration segment returned
\* after a line cut at the end of the timeline and a line timed by the
\* fallback.
NeverRaisesWitness ==
    /\ pc = "done"
    /\ \E i \in 1..Len(transcript_segments) :
          split(normalize_text(transcript_segments[i].text)) = <<>>
    /\ \E i \in 1..Len(transcript_segments) :
          /\ split(normalize_text(transcript_segments[i].text)) # <<>>
          /\ transcript_segments[i].start = transcript_segments[i].end
    /\ \E k \in 1..Len(chosen) :
          /\ chosen[k].kind = "matched"
          /\ chosen[k].offset + Len(NormalizedWords(lyrics_lines[k]))
                 > Len(words_timeline)
    /\ "fallback" \in KindsSeen

\* The smallest index in 0..(n - 1) with the greatest score, 0 when no index
\* scores above 0.
SmallestBest(n, Score(_), default) ==
    LET cands == 0..(n - 1)
    IN  IF \A i \in cands : Score(i) <= 0 THEN default
        ELSE CHOOSE i \in cands :
                 /\ \A j \in cands : Score(j) <= Score(i)
                 /\ \A j \in cands : j < i => Score(j) < Score(i)

AnchorFor(tl, ref) ==
    LET Score(i) == StartScore(tl, ref, i)
    IN  SmallestBest(Min(AnchorRange, Len(tl)), Score, 0)

\* The normalized words of the first AnchorLines non-blank lines.
FirstNonBlankWords(lines) ==
    LET nonblank == SelectSeq(lines, LAMBDA l : strip(l) # <<>>)
        head == SubSeq(nonblank, 1, Min(AnchorLines, Len(nonblank)))
    IN  split(join([k \in 1..Len(head) |-> normalize_text(head[k])]))

AnchorFound == pc = "lines" /\ line_i = 1

\* C9 (as stated): the initial pointer is the smallest index in
\* [0, min(50, |timeline|)) with the greatest window score, 0 when none
\* scores above 0, for the words of the first 3 non-blank lyric lines.
AnchorFromFirstNonBlankLines ==
    AnchorFound =>
        current_pos = AnchorFor(words_timeline, FirstNonBlankWords(lyrics_lines))

\* The same rule for the words of the non-blank lines among the first 3 lines.
AnchorFromFirstLines ==
    AnchorFound =>
        current_pos = AnchorFor(words_timeline, split(first_few_lyrics(lyrics_lines)))

RECURSIVE SimSum(_, _, _, _)
SimSum(tl, W, j, i) ==
    IF i > Len(W) THEN 0
    ELSE word_similarity(W[i], tl[j + i].word) + SimSum(tl, W, j, i + 1)

\* C10: a line of m >= 1 words met with pointer p inside the timeline takes
\* the smallest offset of greatest similarity sum among the offsets j with
\* p <= j < min(p + 50, |timeline|) and j + m <= |timeline|, and p when there
\* is none or none scores above 0; it is timed from that word's start to the
\* end of word min(j + m - 1, |timeline| - 1), after which the pointer stands.
LineMatchRule ==
    \A k \in 1..Len(chosen) :
        (HasWords(k) /\ chosen[k].pos < Len(words_timeline)) =>
            LET W == NormalizedWords(lyrics_lines[k])
                m == Len(W)
                p == chosen[k].pos
                n == Len(words_timeline)
                cands == {j \in p..(Min(p + SearchRange, n) - 1) : j + m <= n}
                best == IF \A j \in cands : SimSum(words_timeline, W, j, 1) <= 0
                        THEN p
                        ELSE CHOOSE j \in cands :
                                 \A h \in cands :
                                     /\ SimSum(words_timeline, W, h, 1)
                                            <= SimSum(words_timeline, W, j, 1)
                                     /\ h < j => SimSum(words_timeline, W, h, 1)
                                                     < SimSum(words_timeline, W, j, 1)
                end_idx == Min((best + m) - 1, n - 1)
            IN  /\ chosen[k].kind = "matched"
                /\ chosen[k].offset = best
                /\ chosen[k].end_idx = end_idx
                /\ results[k].start = Some(words_timeline[best + 1].start)
                /\ results[k].end = Some(words_timeline[end_idx + 1].end)
                /\ PosAfter(k) = end_idx + 1

\* One line took an offset beyond the pointer, and one line longer than the
\* rest of the timeline was timed to the timeline's end and used it up.
LineMatchRuleWitness ==
    /\ \E k \in 1..Len(chosen) :
          /\ chosen[k].kind = "matched"
          /\ chosen[k].offset > chosen[k].pos
    /\ \E k \in 1..Len(chosen) :
          /\ chosen[k].kind = "matched"
          /\ chosen[k].offset + Len(NormalizedWords(lyrics_lines[k]))
                 > Len(words_timeline)
          /\ PosAfter(k) = Len(words_timeline)

(***************************************************************************)
(* The similarity of one pair of words.                                    *)
(***************************************************************************)
Words == SeqsUpTo({"a", "b", "A"}, MaxWordLen)

InitSim ==
    /\ w1 \in Words
    /\ w2 \in Words
    /\ sim = None
    /\ transcript_segments = <<>>
    /\ lyrics_lines = <<>>
    /\ words_timeline = <<>>
    /\ results = <<>>
    /\ current_pos = 0
    /\ seg_i = 1
    /\ line_i = 1
    /\ chosen = <<>>
    /\ steps = 0
    /\ pc = "done"

Similarity ==
    /\ sim = None
    /\ sim' = Some(word_similarity(w1, w2))
    /\ UNCHANGED <<w1, w2>>
    /\ UNCHANGED alignVars

NextSim == Similarity

SimSpec == InitSim /\ [][NextSim]_vars

\* C4 (as stated): word_similarity returns 1.0 exactly when the lower-cased
\* words are identical.
SimOneIffIdentical ==
    sim # None => (sim = Some(SimUnit) <=> lower(w1) = lower(w2))

\* C4 (amended): word_similarity returns 1.0 exactly when the lower-cased
\* words have the same set of characters; identical words score 1.0 and the
\* score is never above 1.0.
SimOneIffSameCharSet ==
    sim # None =>
        /\ sim = Some(SimUnit) <=> CharSet(lower(w1)) = CharSet(lower(w2))
        /\ sim[1] \in 0..SimUnit

\* Two different lower-cased words made of the same characters were scored.
SimAnagramScored ==
    /\ sim # None
    /\ lower(w1) # lower(w2)
    /\ CharSet(lower(w1)) = CharSet(lower(w2))
    /\ sim = Some(SimUnit)

====
